---- MODULE Spec2Model ----
(***************************************************************************)
(* Model of downloads_organizer.py: a pending-file registry filled by a    *)
(* startup scan and by watchdog creation events, and swept by the main     *)
(* loop, which moves every entry older than 24 hours into the folder of    *)
(* its extension's category.                                               *)
(*                                                                         *)
(* Time is counted in hours.  File names and extensions are sequences of   *)
(* one-character strings, so that Path.suffix and str.lower are computed.  *)
(***************************************************************************)
EXTENDS Integers, Sequences, FiniteSets, TLC

\* ------------------------------------------------------------- bounds

\* The environment advances the clock at most MaxTicks times in a behaviour.
MaxTicks == 2
\* At most MaxFiles distinct files are ever created in the watched directory.
MaxFiles == 2
\* Longest file name the classifier is applied to exhaustively.
MaxLen == 4

\* ------------------------------------------------------------- program constants

\* timedelta(hours=24) in process_pending_files
GracePeriod == 24
\* time.sleep(7200) in main
SleepSeconds == 7200
SleepHours == SleepSeconds \div (60 * 60)

\* ------------------------------------------------------------- strings

Upper == {"A", "B", "C", "D", "E", "F", "G", "H", "I", "J", "K", "L", "M", "N",
          "O", "P", "Q", "R", "S", "T", "U", "V", "W", "X", "Y", "Z"}
UpperToLower ==
  [c \in Upper |->
     CASE c = "A" -> "a" [] c = "B" -> "b" [] c = "C" -> "c" [] c = "D" -> "d"
       [] c = "E" -> "e" [] c = "F" -> "f" [] c = "G" -> "g" [] c = "H" -> "h"
       [] c = "I" -> "i" [] c = "J" -> "j" [] c = "K" -> "k" [] c = "L" -> "l"
       [] c = "M" -> "m" [] c = "N" -> "n" [] c = "O" -> "o" [] c = "P" -> "p"
       [] c = "Q" -> "q" [] c = "R" -> "r" [] c = "S" -> "s" [] c = "T" -> "t"
       [] c = "U" -> "u" [] c = "V" -> "v" [] c = "W" -> "w" [] c = "X" -> "x"
       [] c = "Y" -> "y" [] c = "Z" -> "z"]

\* str.lower(), character by character
LowerChar(c) == IF c \in Upper THEN UpperToLower[c] ELSE c
lower(s) == [i \in 1..Len(s) |-> LowerChar(s[i])]

\* str.rfind('.') with positions counted from 1; 0 when there is no dot
RECURSIVE RFindFrom(_, _)
RFindFrom(s, i) ==
  IF i = 0 THEN 0
  ELSE IF s[i] = "." THEN i
  ELSE RFindFrom(s, i - 1)
rfind_dot(s) == RFindFrom(s, Len(s))

\* PurePath.suffix: the last dot-separated part of the name, with its dot;
\* empty when the only dot leads the name or ends it, or there is none
suffix(name) ==
  LET i == rfind_dot(name)
  IN  IF 1 < i /\ i < Len(name) THEN SubSeq(name, i, Len(name)) ELSE <<>>

\* ------------------------------------------------------------- EXTENSIONS

\* The dictionary in its insertion order, which is the order dict.items() yields.
EXTENSIONS ==
  << <<"images",
       { <<".", "j", "p", "g">>, <<".", "j", "p", "e", "g">>, <<".", "p", "n", "g">>,
         <<".", "g", "i", "f">>, <<".", "b", "m", "p">>, <<".", "t", "i", "f", "f">>,
         <<".", "w", "e", "b", "p">>, <<".", "s", "v", "g">>, <<".", "i", "c", "o">> }>>,
     <<"videos",
       { <<".", "m", "p", "4">>, <<".", "a", "v", "i">>, <<".", "m", "k", "v">>,
         <<".", "m", "o", "v">>, <<".", "w", "m", "v">>, <<".", "f", "l", "v">>,
         <<".", "w", "e", "b", "m">>, <<".", "m", "4", "v">>, <<".", "3", "g", "p">> }>>,
     <<"documents",
       { <<".", "p", "d", "f">>, <<".", "d", "o", "c">>, <<".", "d", "o", "c", "x">>,
         <<".", "t", "x", "t">>, <<".", "x", "l", "s", "x">>, <<".", "p", "p", "t">>,
         <<".", "p", "p", "t", "x">>, <<".", "c", "s", "v">>, <<".", "o", "d", "t">> }>>,
     <<"music",
       { <<".", "m", "p", "3">>, <<".", "w", "a", "v">>, <<".", "f", "l", "a", "c">>,
         <<".", "m", "4", "a">>, <<".", "o", "g", "g">>, <<".", "m", "i", "d", "i">>,
         <<".", "a", "a", "c">>, <<".", "w", "m", "a">> }>>,
     <<"programs",
       { <<".", "e", "x", "e">>, <<".", "m", "s", "i">>, <<".", "a", "p", "p">>,
         <<".", "b", "a", "t">>, <<".", "c", "m", "d">>, <<".", "p", "y">>,
         <<".", "j", "a", "r">>, <<".", "d", "l", "l">> }>>,
     <<"compressed",
       { <<".", "z", "i", "p">>, <<".", "r", "a", "r">>, <<".", "7", "z">>,
         <<".", "t", "a", "r">>, <<".", "g", "z">>, <<".", "b", "z", "2">>,
         <<".", "x", "z">>, <<".", "i", "s", "o">> }>>,
     <<"others", {}>> >>

Categories == {EXTENSIONS[i][1] : i \in 1..Len(EXTENSIONS)}

\* Mutant of SuffixMatches: the suffix is compared as it is spelt.
SuffixMatches_cased(name, extensions) == suffix(name) \in extensions

\* The comparison of the classification loop: file.suffix.lower() in extensions
SuffixMatches(name, extensions) == lower(suffix(name)) \in extensions

\* The loop "for cat, extensions in EXTENSIONS.items(): ... break", from entry i on:
\* the first category whose list holds the suffix, 'others' when the loop runs out.
RECURSIVE ClassifyFrom(_, _)
ClassifyFrom(name, i) ==
  IF i > Len(EXTENSIONS) THEN "others"
  ELSE IF SuffixMatches(name, EXTENSIONS[i][2]) THEN EXTENSIONS[i][1]
  ELSE ClassifyFrom(name, i + 1)

\* category of organize_file for the file called name
Classify(name) == ClassifyFrom(name, 1)

\* ------------------------------------------------------------- the watched directory

\* The names files take directly under the watched directory, and their characters.
Names == {"report.PDF", "photo.png"}
Chars ==
  [n \in Names |->
     IF n = "report.PDF"
     THEN <<"r", "e", "p", "o", "r", "t", ".", "P", "D", "F">>
     ELSE <<"p", "h", "o", "t", "o", ".", "p", "n", "g">>]

\* A file: its content (id, 0 when there is no file), the time it was created
\* and stat().st_ctime.  st_ctime is the creation time on Windows and the time
\* of the last change of the inode (content, mode, name) on POSIX.
NoFile == [id |-> 0, birth |-> 0, st_ctime |-> 0]

\* ------------------------------------------------------------- dict

\* A dict is the sequence of its <<key, value>> items in insertion order.
Keys(d) == {d[i][1] : i \in DOMAIN d}
IndexOf(d, k) == CHOOSE i \in DOMAIN d : d[i][1] = k
Get(d, k) == d[IndexOf(d, k)][2]
\* d[k] = v
SetItem(d, k, v) ==
  IF k \in Keys(d) THEN [d EXCEPT ![IndexOf(d, k)] = <<k, v>>] ELSE Append(d, <<k, v>>)
\* Mutant of DelItem: the whole dict is cleared.
DelItem_all(d, k) == <<>>

\* del d[k]
DelItem(d, k) == SelectSeq(d, LAMBDA e : e[1] # k)

\* All orders in which a directory listing can yield the set S of names.
Listings(S) ==
  {q \in [1..Cardinality(S) -> S] : \A i, j \in DOMAIN q : i # j => q[i] # q[j]}

VARIABLES
  now,             \* the wall clock, in hours
  ticks,           \* how many times the clock has advanced
  next_id,         \* content of the next file created
  root,            \* the files directly under the watched directory, by name
  folders,         \* the category folders that exist under the watched directory
  dest,            \* the files in the category folders: <<category, name, id>>
  events,          \* watchdog events queued for the handler, oldest first
  observer,        \* the global observer: "undefined", "running" or "stopped"
  pid_file,        \* downloads_organizer.pid exists
  pc,              \* where the main thread is
  exit_code,       \* status of the last exit, -1 before any
  pending_files,   \* FileOrganizer.pending_files
  current_time,    \* process_pending_files: current_time
  it_used,         \* the dict iterator: size of the dict when it was created
  it_pos,          \* the dict iterator: index of the next item
  files_to_remove, \* process_pending_files: files_to_remove
  sleep_left,      \* hours left of time.sleep
  last_log,        \* level of the last line written to the log
  failed,          \* history: the files organize_file failed to move in this run
  interrupted,     \* history: the step of a sweep at which a signal ended the last
                   \* run, "none" otherwise and once the next observer is started
  file_name,       \* classifier check: the name classified
  category         \* classifier check: the category found for it

vars == <<now, ticks, next_id, root, folders, dest, events, observer, pid_file, pc,
          exit_code, pending_files, current_time, it_used, it_pos, files_to_remove,
          sleep_left, last_log, failed, interrupted, file_name, category>>

fs == <<root, folders, dest>>
sweep == <<current_time, it_used, it_pos, files_to_remove>>
classifier == <<file_name, category>>

InitProgram ==
  /\ now = 0
  /\ ticks = 0
  /\ next_id = 1
  /\ root = [n \in Names |-> NoFile]
  /\ folders = {}
  /\ dest = {}
  /\ events = <<>>
  /\ observer = "undefined"
  /\ pid_file = FALSE
  /\ pc = "stopped"
  /\ exit_code = -1
  /\ pending_files = <<>>
  /\ current_time = 0
  /\ it_used = 0
  /\ it_pos = 0
  /\ files_to_remove = <<>>
  /\ sleep_left = 0
  /\ last_log = "none"
  /\ failed = {}
  /\ interrupted = "none"

Init ==
  /\ InitProgram
  /\ file_name = <<>>
  /\ category = "none"

\* ------------------------------------------------------------- the environment

\* The clock advances by the length of a sleep or of the grace period (the
\* machine was suspended, or nothing else happened meanwhile); a running
\* time.sleep counts down.  A sweep takes less than an hour: the clock does
\* not advance while one runs.
TickSteps == {SleepHours, GracePeriod}
Tick(d) ==
  /\ ticks < MaxTicks
  /\ pc \notin {"iter", "remove"}
  /\ ticks' = ticks + 1
  /\ now' = now + d
  /\ sleep_left' = IF sleep_left > d THEN sleep_left - d ELSE 0
  /\ UNCHANGED <<next_id, fs, events, observer, pid_file, pc, exit_code,
                 pending_files, sweep, last_log, failed, classifier, interrupted>>

\* A file appears in the watched directory; a running observer queues a
\* FileCreatedEvent for it.
CreateFile(n) ==
  /\ root[n] = NoFile
  /\ next_id <= MaxFiles
  /\ next_id' = next_id + 1
  /\ root' = [root EXCEPT ![n] = [id |-> next_id, birth |-> now, st_ctime |-> now]]
  /\ events' = IF observer = "running"
               THEN Append(events, [src_path |-> n, is_directory |-> FALSE])
               ELSE events
  /\ UNCHANGED <<now, ticks, folders, dest, observer, pid_file, pc, exit_code,
                 pending_files, sweep, sleep_left, last_log, failed, classifier, interrupted>>

\* A file of the watched directory is deleted or moved away by someone else.
DeleteFile(n) ==
  /\ root[n] # NoFile
  /\ root' = [root EXCEPT ![n] = NoFile]
  /\ UNCHANGED <<now, ticks, next_id, folders, dest, events, observer, pid_file, pc,
                 exit_code, pending_files, sweep, sleep_left, last_log, failed, classifier, interrupted>>

\* A file of the watched directory is written to, renamed onto itself or has
\* its mode changed: on POSIX that sets st_ctime.
ChangeFile(n) ==
  /\ pc \in {"stopped", "init"}
  /\ root[n] # NoFile
  /\ root[n].st_ctime # now
  /\ root' = [root EXCEPT ![n].st_ctime = now]
  /\ UNCHANGED <<now, ticks, next_id, folders, dest, events, observer, pid_file, pc,
                 exit_code, pending_files, sweep, sleep_left, last_log, failed, classifier, interrupted>>

\* ------------------------------------------------------------- FileOrganizer

\* Whether file.exists() holds of the path
exists(file_path) == root[file_path] # NoFile

\* downloads_dir.glob('*'): the direct children of the watched directory, its
\* files and its folders; what lies inside a folder is not among them.
DirEntries == {n \in Names : exists(n)} \cup folders

\* Mutant of is_file: no entry of the directory counts as a file.
is_file_never(file_path) == FALSE

\* Path.is_file(): the entry is a regular file
is_file(file_path) == file_path \in Names /\ exists(file_path)

\* The loop of process_existing_files over the listing q, from the registry d
RECURSIVE ScanLoop(_, _)
ScanLoop(q, d) ==
  IF q = <<>> THEN d
  ELSE ScanLoop(Tail(q),
                IF is_file(Head(q))
                THEN SetItem(d, Head(q), root[Head(q)].st_ctime)
                ELSE d)

\* What dest_folder.mkdir and shutil.move can do: both succeed; mkdir raises
\* (the watched directory is not writable), and nothing is done; or
\* shutil.move raises half-way: os.rename is refused, the copy it falls back
\* to succeeds and the unlink of the source is refused too (the file is open
\* in another program, or immutable, or in a sticky directory).  A shutil.move
\* that raises with nothing done leaves what a raising mkdir leaves, but for
\* an empty category folder, and is not told apart from it.
IoOutcomes == {"ok", "mkdir_raises", "unlink_raises"}

\* The copy of shutil.move's fallback: the file is written at dst, over a file
\* already there, and stays at src.
copy2(file_path, cat) ==
  {f \in dest : ~(f[1] = cat /\ f[2] = file_path)}
    \cup {<<cat, file_path, root[file_path].id>>}

\* shutil.move(src, dst) with dst the path of a file: os.rename, or copy and
\* unlink where rename refuses; both replace a file already at dst.
shutil_move(file_path, cat) ==
  [root |-> [root EXCEPT ![file_path] = NoFile],
   dest |-> {f \in dest : ~(f[1] = cat /\ f[2] = file_path)}
              \cup {<<cat, file_path, root[file_path].id>>}]

\* Mutant of organize_file: without "if not file.exists(): return", a missing
\* file makes shutil.move raise, which the except clause logs.
organize_file_unchecked(file_path, io) ==
  LET cat == Classify(Chars[file_path])
      moved == shutil_move(file_path, cat)
  IN  IF io = "mkdir_raises"
      THEN [root |-> root, folders |-> folders, dest |-> dest,
            log |-> "error", error |-> TRUE, raised |-> FALSE]
      ELSE IF ~exists(file_path)
      THEN [root |-> root, folders |-> folders \cup {cat}, dest |-> dest,
            log |-> "error", error |-> TRUE, raised |-> FALSE]
      ELSE IF io = "unlink_raises"
      THEN [root |-> root, folders |-> folders \cup {cat}, dest |-> copy2(file_path, cat),
            log |-> "error", error |-> TRUE, raised |-> FALSE]
      ELSE [root |-> moved.root, folders |-> folders \cup {cat}, dest |-> moved.dest,
            log |-> "info", error |-> FALSE, raised |-> FALSE]

\* Mutant of organize_file: without the try statement the exception of a
\* failed mkdir or move leaves the function.
organize_file_uncaught(file_path, io) ==
  LET cat == Classify(Chars[file_path])
      moved == shutil_move(file_path, cat)
  IN  IF ~exists(file_path)
      THEN [root |-> root, folders |-> folders, dest |-> dest,
            log |-> last_log, error |-> FALSE, raised |-> FALSE]
      ELSE IF io = "mkdir_raises"
      THEN [root |-> root, folders |-> folders, dest |-> dest,
            log |-> "error", error |-> TRUE, raised |-> TRUE]
      ELSE IF io = "unlink_raises"
      THEN [root |-> root, folders |-> folders \cup {cat}, dest |-> copy2(file_path, cat),
            log |-> "error", error |-> TRUE, raised |-> TRUE]
      ELSE [root |-> moved.root, folders |-> folders \cup {cat}, dest |-> moved.dest,
            log |-> "info", error |-> FALSE, raised |-> FALSE]

\* organize_file(file_path) under the I/O outcome io.  The result holds the
\* file system it leaves, the level of the line it logs (last_log when it logs
\* nothing), whether the except clause ran and whether an exception leaves it.
organize_file(file_path, io) ==
  LET cat == Classify(Chars[file_path])
      moved == shutil_move(file_path, cat)
  IN  IF ~exists(file_path)
      THEN [root |-> root, folders |-> folders, dest |-> dest,
            log |-> last_log, error |-> FALSE, raised |-> FALSE]
      ELSE IF io = "mkdir_raises"
      THEN [root |-> root, folders |-> folders, dest |-> dest,
            log |-> "error", error |-> TRUE, raised |-> FALSE]
      ELSE IF io = "unlink_raises"
      THEN [root |-> root, folders |-> folders \cup {cat}, dest |-> copy2(file_path, cat),
            log |-> "error", error |-> TRUE, raised |-> FALSE]
      ELSE [root |-> moved.root, folders |-> folders \cup {cat}, dest |-> moved.dest,
            log |-> "info", error |-> FALSE, raised |-> FALSE]

\* Mutant of IsEligible: the age is compared with the sleep interval.
IsEligible_interval(current, creation_time) == current - creation_time >= SleepHours

\* The test of process_pending_files: current_time - creation_time >= timedelta(hours=24)
IsEligible(current, creation_time) == current - creation_time >= GracePeriod

\* Mutant of is_directory: every event is taken for a file's.
is_directory_never(event) == FALSE

\* event.is_directory
is_directory(event) == event.is_directory

\* on_created(event), run by the observer's thread for the oldest queued event
on_created ==
  /\ observer = "running"
  /\ events # <<>>
  /\ events' = Tail(events)
  /\ IF ~is_directory(Head(events))
     THEN /\ pending_files' = SetItem(pending_files, Head(events).src_path, now)
          /\ last_log' = "info"
     ELSE UNCHANGED <<pending_files, last_log>>
  /\ UNCHANGED <<now, ticks, next_id, fs, observer, pid_file, pc, exit_code, sweep,
                 sleep_left, failed, classifier, interrupted>>

\* main up to the try statement: the PID file is written, the handlers registered
Start ==
  /\ pc = "stopped"
  /\ pc' = "init"
  /\ pid_file' = TRUE
  /\ exit_code' = -1
  /\ last_log' = "info"
  /\ UNCHANGED <<now, ticks, next_id, fs, events, observer, pending_files, sweep,
                 sleep_left, failed, classifier, interrupted>>

\* FileOrganizer(downloads_path): __init__ and process_existing_files.  glob
\* yields the entries in some order; each regular file among them is stored
\* with its st_ctime.
process_existing_files ==
  /\ pc = "init"
  /\ \E q \in Listings(DirEntries) : pending_files' = ScanLoop(q, <<>>)
  /\ pc' = "scanned"
  /\ last_log' = "info"
  /\ UNCHANGED <<now, ticks, next_id, fs, events, observer, pid_file, exit_code, sweep,
                 sleep_left, failed, classifier, interrupted>>

\* observer = Observer(); observer.schedule(...); observer.start()
ObserverStart ==
  /\ pc = "scanned"
  /\ observer' = "running"
  /\ pc' = "loop"
  /\ last_log' = "info"
  /\ interrupted' = "none"
  /\ UNCHANGED <<now, ticks, next_id, fs, events, pid_file, exit_code, pending_files,
                 sweep, sleep_left, failed, classifier>>

\* process_pending_files up to its first loop: the clock is read once and the
\* iterator over pending_files.items() is created
SweepBegin ==
  /\ pc = "loop"
  /\ current_time' = now
  /\ files_to_remove' = <<>>
  /\ it_used' = Len(pending_files)
  /\ it_pos' = 1
  /\ pc' = "iter"
  /\ last_log' = "info"
  /\ UNCHANGED <<now, ticks, next_id, fs, events, observer, pid_file, exit_code,
                 pending_files, sleep_left, failed, classifier, interrupted>>

\* The end of the process, from the moment main's try statement is left: the
\* finally clause removes the PID file and calls observer.stop() and
\* observer.join(), which raises NameError when observer was never bound; the
\* process then ends with status 1, otherwise with status 0.  Its memory (the
\* registry, the observer and its queue) is gone.
Exit ==
  /\ pid_file' = FALSE
  /\ exit_code' = IF observer = "undefined" THEN 1 ELSE 0
  /\ observer' = "undefined"
  /\ events' = <<>>
  /\ pending_files' = <<>>
  /\ current_time' = 0
  /\ it_used' = 0
  /\ it_pos' = 0
  /\ files_to_remove' = <<>>
  /\ sleep_left' = 0
  /\ failed' = {}
  /\ pc' = "stopped"

\* One round of "for file_path, creation_time in self.pending_files.items()".
\* The iterator raises RuntimeError when the dict has changed size since the
\* iterator was created; nothing in process_pending_files catches it, main's
\* except clause logs it and the process ends.
SweepNext ==
  /\ pc = "iter"
  /\ IF Len(pending_files) # it_used
     THEN /\ last_log' = "error"
          /\ Exit
          /\ UNCHANGED fs
     ELSE IF it_pos > Len(pending_files)
     THEN /\ pc' = "remove"
          /\ UNCHANGED <<fs, events, sweep, last_log, observer, pid_file, exit_code,
                         pending_files, sleep_left, failed>>
     ELSE LET file_path == pending_files[it_pos][1]
              creation_time == pending_files[it_pos][2]
          IN  IF IsEligible(current_time, creation_time)
              THEN \E io \in IoOutcomes :
                     LET r == organize_file(file_path, io)
                     IN  /\ root' = r.root
                         /\ folders' = r.folders
                         /\ dest' = r.dest
                         /\ last_log' = r.log
                         /\ IF r.raised
                            THEN Exit
                            ELSE /\ pc' = "iter"
                                 /\ files_to_remove' = Append(files_to_remove, file_path)
                                 /\ it_pos' = it_pos + 1
                                 /\ events' = IF r.folders # folders
                                              THEN Append(events,
                                                     [src_path |-> Classify(Chars[file_path]),
                                                      is_directory |-> TRUE])
                                              ELSE events
                                 /\ failed' = IF r.error
                                              THEN failed \cup {root[file_path].id}
                                              ELSE failed
                                 /\ UNCHANGED <<current_time, it_used, observer, pid_file,
                                                exit_code, pending_files, sleep_left>>
              ELSE /\ it_pos' = it_pos + 1
                   /\ pc' = "iter"
                   /\ UNCHANGED <<fs, events, current_time, it_used, files_to_remove,
                                  last_log, observer, pid_file, exit_code, pending_files,
                                  sleep_left, failed>>
  /\ UNCHANGED <<now, ticks, next_id, classifier, interrupted>>

\* One round of "for file_path in files_to_remove: del self.pending_files[file_path]"
\* (KeyError when the key is gone); after the last, main logs and calls time.sleep.
SweepRemove ==
  /\ pc = "remove"
  /\ IF files_to_remove = <<>>
     THEN /\ pc' = "sleep"
          /\ sleep_left' = SleepHours
          /\ last_log' = "info"
          /\ current_time' = 0
          /\ it_used' = 0
          /\ it_pos' = 0
          /\ UNCHANGED <<pending_files, files_to_remove, events, observer, pid_file,
                         exit_code, failed>>
     ELSE IF Head(files_to_remove) \in Keys(pending_files)
     THEN /\ pending_files' = DelItem(pending_files, Head(files_to_remove))
          /\ files_to_remove' = Tail(files_to_remove)
          /\ UNCHANGED <<pc, sleep_left, last_log, current_time, it_used, it_pos, events,
                         observer, pid_file, exit_code, failed>>
     ELSE /\ last_log' = "error"
          /\ Exit
  /\ UNCHANGED <<now, ticks, next_id, fs, classifier, interrupted>>

\* Mutant of Wake: time.sleep returns before its time is up.
Wake_early ==
  /\ pc = "sleep"
  /\ pc' = "loop"
  /\ UNCHANGED <<now, ticks, next_id, fs, events, observer, pid_file, exit_code,
                 pending_files, sweep, sleep_left, last_log, failed, classifier, interrupted>>

\* time.sleep(7200) returns
Wake ==
  /\ pc = "sleep"
  /\ sleep_left = 0
  /\ pc' = "loop"
  /\ UNCHANGED <<now, ticks, next_id, fs, events, observer, pid_file, exit_code,
                 pending_files, sweep, sleep_left, last_log, failed, classifier, interrupted>>

\* SIGTERM or SIGINT: signal_handler runs in the main thread.  With observer
\* bound it stops the observer and raises SystemExit, which no except clause
\* of main catches; before that, observer.stop() raises NameError inside the
\* try statement, which the except clause logs.  Either way the process ends.
signal_handler ==
  /\ pc \in {"init", "scanned", "loop", "iter", "remove", "sleep"}
  /\ last_log' = IF observer = "undefined" THEN "error" ELSE "info"
  /\ interrupted' = IF pc \in {"iter", "remove"} THEN pc ELSE "none"
  /\ Exit
  /\ UNCHANGED <<now, ticks, next_id, fs, classifier>>

Next ==
  \/ \E d \in TickSteps : Tick(d)
  \/ \E n \in Names : CreateFile(n)
  \/ \E n \in Names : DeleteFile(n)
  \/ \E n \in Names : ChangeFile(n)
  \/ on_created
  \/ Start
  \/ process_existing_files
  \/ ObserverStart
  \/ SweepBegin
  \/ SweepNext
  \/ SweepRemove
  \/ Wake
  \/ signal_handler

Spec == Init /\ [][Next]_vars

\* ------------------------------------------------------------- the classifier alone

\* The names the classifier is applied to: every name of at most MaxLen
\* characters over a small alphabet, and some longer ones.
ClassifierAlphabet == {".", "g", "z", "G", "p", "y"}
ArchiveTarGz == <<"a", "r", "c", "h", "i", "v", "e", ".", "t", "a", "r", ".", "g", "z">>
SampleNames ==
  { ArchiveTarGz,
    <<"r", "e", "p", "o", "r", "t", ".", "P", "D", "F">>,
    <<"p", "h", "o", "t", "o", ".", "p", "n", "g">>,
    <<"s", "o", "n", "g", ".", "M", "p", "3">>,
    <<"x", ".", "x", "y", "z">>,
    <<"n", "o", "t", "e", "s">>,
    <<"n", "o", "t", "e", "s", ".">>,
    <<".", "b", "a", "s", "h", "r", "c">> }
ClassifierInputs ==
  SampleNames \cup UNION {[1..k -> ClassifierAlphabet] : k \in 0..MaxLen}

InitClassifier ==
  /\ InitProgram
  /\ file_name \in ClassifierInputs
  /\ category = "none"

\* The classification of organize_file applied to file_name
ClassifyStep ==
  /\ category = "none"
  /\ category' = Classify(file_name)
  /\ UNCHANGED <<now, ticks, next_id, fs, events, observer, pid_file, pc, exit_code,
                 pending_files, sweep, sleep_left, last_log, failed, interrupted,
                 file_name>>

SpecClassifier == InitClassifier /\ [][ClassifyStep]_vars

\* ------------------------------------------------------------- properties

Range(q) == {q[i] : i \in DOMAIN q}

\* This step of the sweep's first loop visits the entry of n, with sweep age
\* at least the grace period
VisitsEligible(n) ==
  /\ pc = "iter"
  /\ Len(pending_files) = it_used
  /\ it_pos <= Len(pending_files)
  /\ it_pos' = it_pos + 1
  /\ pending_files[it_pos][1] = n
  /\ current_time - pending_files[it_pos][2] >= GracePeriod

\* This step hands n to organize_file: process_pending_files queues a path
\* for removal exactly when it has called organize_file on it.
PassedToOrganize(n) == pc = "iter" /\ files_to_remove' = Append(files_to_remove, n)

\* This step moves the file called n out of the watched directory into a
\* category folder (it is not the deletion of a file of which a failed move
\* has left a copy there).
MovedAway(n) ==
  /\ ~DeleteFile(n)
  /\ root[n] # NoFile
  /\ root'[n] = NoFile
  /\ \E f \in dest' : f[2] = n /\ f[3] = root[n].id

\* C1. No false promotion: a sweep hands an entry to organize_file, and a
\* file is moved, only when the sweep's time reading minus the entry's
\* first-seen timestamp is at least the 24-hour grace period.
C1_NoFalsePromotion ==
  [][\A n \in Names :
       (PassedToOrganize(n) \/ MovedAway(n)) =>
         /\ n \in Keys(pending_files)
         /\ current_time - Get(pending_files, n) >= GracePeriod]_vars

\* A sweep has gone through the registry, has handed some entry to
\* organize_file, and has left alone an entry that was there before it read
\* the clock and is younger than the grace period; its file is still in place.
C1_YoungEntrySkipped ==
  /\ pc = "remove"
  /\ files_to_remove # <<>>
  /\ \E n \in Keys(pending_files) :
       /\ Get(pending_files, n) < current_time
       /\ current_time - Get(pending_files, n) < GracePeriod
       /\ n \notin Range(files_to_remove)
       /\ root[n] # NoFile

\* C2. No loss: a sweep drops an entry from the registry only when no file
\* sits at that path in the watched directory any more (it was moved, or it
\* is gone), or when a creation notification for the path is still to come.
C2_NoLoss ==
  [][\A n \in Names :
       (n \in Keys(pending_files) /\ n \notin Keys(pending_files') /\ pc' # "stopped") =>
         \/ root[n] = NoFile
         \/ \E i \in DOMAIN events :
              events[i].src_path = n /\ ~events[i].is_directory]_vars

\* C3. Idempotent insert: the first-seen timestamp of a path that stays in
\* the registry never changes.
C3_InsertIdempotent ==
  [][\A n \in Names :
       (n \in Keys(pending_files) /\ n \in Keys(pending_files')) =>
         Get(pending_files', n) = Get(pending_files, n)]_vars

\* C4. A failed move leaves the entry pending: while the process runs, the
\* entry of a file that organize_file failed to move, and that is still in
\* the watched directory, is not removed from the registry.
C4_FailedMoveStaysPending ==
  [][\A n \in Names :
       (/\ root[n] # NoFile
        /\ root[n].id \in failed
        /\ n \in Keys(pending_files)
        /\ pc' # "stopped") => n \in Keys(pending_files')]_vars

\* C5. Concurrent insert and sweep do not race: when on_created has added a
\* path while the sweep iterates, the sweep does not fail on it.
C5_ConcurrentInsertSafe ==
  [][(pc = "iter" /\ Len(pending_files) # it_used) =>
       ~(pc' = "stopped" /\ last_log' = "error")]_vars

\* C6. No silent overwrite: the content of a file in a category folder is
\* still in a category folder after every step (a move onto its name either
\* keeps both contents or fails).
C6_NoSilentOverwrite ==
  [][\A f \in dest : \E g \in dest' : g[3] = f[3]]_vars

\* C7. A vanished file is no error and no stuck entry: when a sweep visits an
\* eligible entry whose file is gone, nothing is logged, the loop goes on and
\* the path is queued for removal; the removal loop deletes the entry of every
\* queued path, and the sweep ends only when the queue is empty.
C7_VanishedFileDropped ==
  [][/\ \A n \in Names :
          (VisitsEligible(n) /\ root[n] = NoFile) =>
            /\ last_log' = last_log
            /\ pc' = "iter"
            /\ files_to_remove' = Append(files_to_remove, n)
     /\ (pc = "remove" /\ pc' = "remove" /\ files_to_remove' # files_to_remove) =>
            /\ files_to_remove' = Tail(files_to_remove)
            /\ Head(files_to_remove) \notin Keys(pending_files')
     /\ (pc = "remove" /\ pc' = "sleep") => files_to_remove = <<>>]_vars

\* A sweep has called organize_file on a path whose file had vanished: the
\* path is queued for removal although no file of that name was ever moved
\* and no move has failed.
C7_VanishedVisited ==
  /\ pc \in {"iter", "remove"}
  /\ failed = {}
  /\ \E n \in Range(files_to_remove) :
       /\ root[n] = NoFile
       /\ ~\E f \in dest : f[2] = n

\* C8. No per-file error ends the sweep loop: the step in which organize_file
\* fails leaves the main thread in the loop, at the next entry, with the
\* process and its observer running; and a sweep whose registry has not
\* changed size is only ever ended by a shutdown signal.
C8_PerFileErrorKeepsLoop ==
  [][/\ (pc = "iter" /\ failed' # failed /\ failed' # {}) =>
            /\ pc' = "iter"
            /\ it_pos' = it_pos + 1
            /\ pending_files' = pending_files
            /\ observer' = "running"
            /\ pid_file'
            /\ exit_code' = -1
     /\ (pc = "iter" /\ Len(pending_files) = it_used /\ pc' = "stopped") =>
            last_log' = "info"]_vars

\* In one sweep organize_file has failed on the first eligible entry and has
\* then moved the file of the second.
C8_MovedAfterFailure ==
  /\ pc = "iter"
  /\ Len(files_to_remove) = 2
  /\ root[files_to_remove[1]] # NoFile
  /\ root[files_to_remove[1]].id \in failed
  /\ root[files_to_remove[2]] = NoFile
  /\ \E f \in dest : f[2] = files_to_remove[2]

\* C9. Restart preserves age: the startup scan stores every file of the
\* watched directory with the time the file was created.
C9_ScanUsesCreationTime ==
  [][(pc = "init" /\ pc' = "scanned") =>
       \A n \in Names :
         root[n] # NoFile =>
           /\ n \in Keys(pending_files')
           /\ Get(pending_files', n) = root[n].birth]_vars

\* The extension of a name, stated without rfind: the part from the last dot
\* on, when that dot is neither the first nor the last character.
LastSuffix(name) ==
  IF \E i \in 2..(Len(name) - 1) :
       name[i] = "." /\ \A j \in (i + 1)..Len(name) : name[j] # "."
  THEN LET i == CHOOSE i \in 2..(Len(name) - 1) :
                  name[i] = "." /\ \A j \in (i + 1)..Len(name) : name[j] # "."
       IN  [k \in 1..(Len(name) - i + 1) |-> name[i + k - 1]]
  ELSE <<>>

\* C10. The classifier is total and case-insensitive: the category found is
\* the one category of EXTENSIONS whose list holds the lower-cased last
\* suffix, and 'others' when no list holds it.
C10_ClassifierTotal ==
  category # "none" =>
    LET ext == lower(LastSuffix(file_name))
        holding == {i \in 1..Len(EXTENSIONS) : ext \in EXTENSIONS[i][2]}
    IN  /\ category \in Categories
        /\ Cardinality(holding) <= 1
        /\ holding = {} => category = "others"
        /\ \A i \in holding : category = EXTENSIONS[i][1]

\* archive.TAR.gz-like names: the multi-part name archive.tar.gz has been
\* classified by its last suffix alone.
C10_ArchiveClassified == file_name = ArchiveTarGz /\ category = "compressed"

\* C11. Graceful shutdown: whenever SIGTERM or SIGINT arrives after the
\* handlers are registered (during the startup scan, during a sweep or during
\* the sleep), the observer is stopped, the PID file is removed and the
\* process exits with status 0.
C11_GracefulShutdown ==
  [][signal_handler =>
       /\ pc' = "stopped"
       /\ observer' # "running"
       /\ ~pid_file'
       /\ exit_code' = 0]_vars

\* C12. Cancellation does not lose files: the signal that ends a run in the
\* middle of a sweep leaves every file where it is; the startup scan of the
\* next run queues exactly the files that are in the watched directory, so
\* every file not yet moved and no file already moved; and no step takes a
\* file out of the category folder it was moved to, or puts it back into
\* the watched directory.
C12_CancellationKeepsFiles ==
  [][/\ (signal_handler /\ pc \in {"iter", "remove"}) => fs' = fs
     /\ (pc = "init" /\ pc' = "scanned") =>
          /\ fs' = fs
          /\ Keys(pending_files') = {n \in Names : root[n] # NoFile}
     /\ \A f \in dest :
          /\ \A n \in Names : root'[n].id = f[3] => root[n].id = f[3]
          /\ \A g \in dest' : g[3] = f[3] => g = f]_vars

\* A signal has ended a run in the middle of a sweep that had moved a file;
\* the startup scan of the next run has queued a file the sweep had not
\* moved, which is old enough for the first sweep to move it.
C12_RequeuedAfterRestart ==
  /\ pc = "scanned"
  /\ interrupted \in {"iter", "remove"}
  /\ dest # {}
  /\ \E n \in Keys(pending_files) :
       /\ root[n] # NoFile
       /\ IsEligible(now, Get(pending_files, n))

\* C13. An uncaught failure in main (one that main's except clause logs) ends
\* the process with the PID file removed and a non-zero exit status.
C13_FailureExitsNonZero ==
  [][(pc # "stopped" /\ pc' = "stopped" /\ last_log' = "error") =>
       /\ ~pid_file'
       /\ exit_code' # 0]_vars

\* C14. A sweep leaves the young entries alone: the step of the first loop
\* that visits an entry younger than the grace period at the sweep's time
\* reading changes neither the registry, nor the removal queue, nor any file;
\* a path is queued for removal only when its age at that reading was at
\* least the grace period; the first loop never changes the registry, and a
\* step of the removal loop removes the queued path only, leaving every other
\* entry with its timestamp.
C14_YoungEntriesKept ==
  [][/\ (/\ SweepNext
         /\ pc' = "iter"
         /\ ~IsEligible(current_time, pending_files[it_pos][2])) =>
            /\ pending_files' = pending_files
            /\ files_to_remove' = files_to_remove
            /\ fs' = fs
     /\ (SweepNext /\ pc' # "stopped") =>
            /\ pending_files' = pending_files
            /\ files_to_remove' # files_to_remove =>
                 /\ files_to_remove' = Append(files_to_remove, pending_files[it_pos][1])
                 /\ current_time - pending_files[it_pos][2] >= GracePeriod
     /\ (SweepRemove /\ pc' # "stopped") =>
            \A n \in Keys(pending_files) :
              (files_to_remove = <<>> \/ n # Head(files_to_remove)) =>
                /\ n \in Keys(pending_files')
                /\ Get(pending_files', n) = Get(pending_files, n)]_vars

\* The sweep of the scenario has ended: report.PDF, old enough, is in
\* documents and out of the registry, and photo.png, in the registry before
\* the sweep read the clock and younger than the grace period, is still
\* pending with its file in place.
C14_PhotoStillPending ==
  /\ pc = "remove"
  /\ files_to_remove = <<>>
  /\ root["report.PDF"] = NoFile
  /\ "report.PDF" \notin Keys(pending_files)
  /\ \E f \in dest : f[1] = "documents" /\ f[2] = "report.PDF"
  /\ root["photo.png"] # NoFile
  /\ "photo.png" \in Keys(pending_files)
  /\ Get(pending_files, "photo.png") = root["photo.png"].birth
  /\ Get(pending_files, "photo.png") < current_time
  /\ current_time - Get(pending_files, "photo.png") < GracePeriod

\* C15. No creation is missed: on_created runs only once the startup scan is
\* over; the scan stores every file of the watched directory; and a file
\* created in the watched directory after the scan, the time between the scan
\* and the start of the observer included, has a creation notification queued
\* for the handler.
C15_NoCreationMissed ==
  [][/\ on_created => pc \notin {"stopped", "init"}
     /\ (pc = "init" /\ pc' = "scanned") =>
          \A n \in Names : root[n] # NoFile => n \in Keys(pending_files')
     /\ \A n \in Names :
          (/\ pc \notin {"stopped", "init"}
           /\ root[n] = NoFile
           /\ root'[n] # NoFile) =>
             \E i \in DOMAIN events' :
               events'[i].src_path = n /\ ~events'[i].is_directory]_vars

C17_OnlyDirectChildFiles ==
  /\ Keys(pending_files) \subseteq Names
  /\ Keys(pending_files) \cap Categories = {}
  /\ Range(files_to_remove) \subseteq Names
  /\ \A f \in dest : f[1] \in folders

\* A startup scan has run over a watched directory that holds a category
\* folder with a moved file in it next to a regular file, and has queued the
\* regular file.
C17_ScannedBesideFolder ==
  /\ pc = "scanned"
  /\ interrupted = "none"
  /\ folders # {}
  /\ dest # {}
  /\ pending_files # <<>>

\* The places of the file with content id in the file system <<r, d>>: the
\* watched directory (folder "") or a category folder, with its base name.
Places(id, r, d) ==
  {<<"", n>> : n \in {m \in Names : r[m].id = id}}
    \cup {<<f[1], f[2]>> : f \in {g \in d : g[3] = id}}

\* C18. File conservation: a file that is in one place, that nobody outside
\* the program deletes in this step, and whose place is not the destination
\* of another file of the same name, is in one place after the step: where it
\* was, or, moved from the watched directory, in the folder of its category
\* under its name.
C18_FileConservation ==
  [][\A id \in 1..(next_id - 1) :
       (/\ Cardinality(Places(id, root, dest)) = 1
        /\ ~\E n \in Names : DeleteFile(n) /\ root[n].id = id
        /\ \A f \in dest : f[3] = id => root[f[2]] = NoFile) =>
          /\ Cardinality(Places(id, root', dest')) = 1
          /\ \/ Places(id, root', dest') = Places(id, root, dest)
             \/ \E n \in Names :
                  /\ Places(id, root, dest) = {<<"", n>>}
                  /\ Places(id, root', dest') = {<<Classify(Chars[n]), n>>}]_vars

====
